---- MODULE Spec2Model ----
(***************************************************************************)
(* Model of elk/inference_server/fsdp.py: the InferenceServer worker pool. *)
(*                                                                         *)
(* One shared task queue, one result queue per calling thread, a pool of   *)
(* worker processes, the round_robin collector and shutdown().             *)
(*                                                                         *)
(* Library behaviour the module relies on:                                 *)
(*  - multiprocessing.Manager queues are unbounded FIFO queues living in   *)
(*    the manager process; after Manager.shutdown() every operation on a   *)
(*    queue or dict proxy raises (a connection error, an Exception).       *)
(*  - torch.multiprocessing.ProcessContext.join(): "Tries to join one or   *)
(*    more processes in this spawn context. If one of them exited with a   *)
(*    non-zero exit status, this function kills the remaining processes    *)
(*    and raises an exception with the cause of the first process exiting. *)
(*    Returns True if all processes have been joined successfully, False   *)
(*    if there are more processes that need to be joined."  It waits for   *)
(*    at least one not-yet-joined process to exit, and returns True at     *)
(*    once when none is left to join.                                      *)
(***************************************************************************)
EXTENDS Integers, Sequences, FiniteSets, Bags, TLC

\* ------------------------------------------------------------------ bounds
NumWorkers == 2         \* most devices select_usable_devices returns
MaxRecords == 2         \* longest keywords list handed to map / imap
MaxRequests == 2        \* requests made on a server that is not shut down
MaxShutdowns == 2       \* shutdown() calls made on the server
LifecycleRequests == 1  \* requests made on a server that is being shut down
LiveRequests == 2       \* requests made on a server whose workers stay alive
MaxItems == 5           \* longest seq handed to shard_seq on its own
MaxShards == 3          \* largest num_shards handed to shard_seq on its own

Callers == {"A", "B"}   \* distinct threading.get_ident() values

\* infer, and imap; map is list(imap(...)) (line 206): the imap request whose
\* consumer takes every item, whose list is what the request has received when
\* it returns
Ops == {"infer", "imap"}

VARIABLES
  num_workers,     \* self.num_workers = len(devices)
  task_queue,      \* self._task_queue: FIFO of TaskMessage | sentinel
  result_queues,   \* self._result_queues: queue id -> FIFO of ResultMessage | sentinel
  manager_up,      \* self._manager is running
  wpc,             \* worker -> position in _worker
  wmsg,            \* worker -> the TaskMessage it holds or died on (<<>> when none)
  widx,            \* worker -> index of the next record of msg.data
  cpc,             \* caller -> "idle" | "collecting"
  cop,             \* caller -> operation of its current / last request
  keywords,        \* caller -> records of its current / last request
  cfunc,           \* caller -> func of its current / last request
  remaining,       \* caller -> remaining_workers of its round_robin
  received,        \* caller -> payloads yielded to it by the current / last request
  at_yield,        \* caller -> its imap generator is suspended at the yield
  outcome,         \* caller -> how its last request ended
  raised_exc,      \* caller -> the exception its last request re-raised (<<>>: none)
  req_no,          \* caller -> number of requests started
  spc,             \* position of the thread calling shutdown()
  shutdown_ret,    \* return values of the shutdown() calls made so far
  unjoined,        \* ProcessContext.sentinels: workers not yet joined
  signals_put,     \* shutdown signals enqueued so far
  signals_got,     \* worker -> shutdown signals it has consumed
  raised_in,       \* worker -> a record's processing has raised inside it
  ever_bad,        \* caller -> it has dispatched a record that raises
  ever_left,       \* caller -> it has stopped iterating an imap before its end
  clean_start,     \* caller -> its result queue held nothing when its current / last request started
  dead_at_start,   \* caller -> a worker had died idle when its current / last request started
  called_on_idle,  \* the first shutdown() found every worker waiting on an empty task queue
  scope,           \* the with statement on the server: "out" | "in" | "left"
  exit_type,       \* exc_type handed to __exit__ ("none" before it is called)
  fsdp_port,       \* the fsdp_port handed to the workers: "None", or "port" in FSDP mode
  in_group,        \* worker -> it is in the process group of dist.init_process_group
  arg_seq,         \* shard_seq: the seq argument
  arg_num_shards,  \* shard_seq: the num_shards argument
  ret_shards       \* shard_seq: <<the shards returned>> (<<>> before it returns)

Workers == 1..num_workers

wvars == <<wpc, wmsg, widx, signals_got, raised_in>>
cvars == <<cpc, cop, keywords, cfunc, remaining, received, at_yield,
           outcome, raised_exc, req_no, ever_bad, ever_left, clean_start, dead_at_start>>
svars == <<spc, shutdown_ret, unjoined, signals_put, called_on_idle>>
fvars == <<fsdp_port, in_group>>
lvars == <<scope, exit_type, fvars>>
shvars == <<arg_seq, arg_num_shards, ret_shards>>
vars == <<num_workers, task_queue, result_queues, manager_up, wvars, cvars, svars,
          lvars, shvars>>

\* ------------------------------------------------------------------ messages
\* sentinel: Literal["sentinel"], the shutdown signal and the completion marker
sentinel == [kind |-> "sentinel"]

\* TaskMessage(id, data, func_dill); func_dill is "none", "ok" or "corrupt"
TaskMessage(id, data, func_dill) ==
  [kind |-> "task", id |-> id, data |-> data, func_dill |-> func_dill]

\* ResultMessage(id, data, exception); <<>> stands for None
ResultMessage(id, data, exception) ==
  [kind |-> "result", id |-> id, data |-> data, exception |-> exception]

\* get_queue_id(): the id of the calling thread
get_queue_id(c) == c

\* model(**inputs_cuda, output_hidden_states=True): the output for a record
ModelForward(record) ==
  [hidden |-> <<record.owner, record.req, record.pos>>, device |-> "cuda"]

\* func(outputs, device) if func is not None else outputs, then the move back
\* to the CPU when no func was applied (lines 351-369)
ConvertedBackOutputs(func_dill, outputs) ==
  IF func_dill = "none"
    THEN [outputs EXCEPT !.device = "cpu"]
    ELSE [applied |-> outputs.hidden, device |-> outputs.device]

\* the value the caller is meant to get for a record
Expected(func_dill, record) == ConvertedBackOutputs(func_dill, ModelForward(record))

\* ------------------------------------------------------------------ shard_seq
\* seq cut into num_shards runs of neighbouring items
StrideChunk(seq, i, num_shards) ==
  LET size == (Len(seq) + num_shards - 1) \div num_shards
      last == IF (i + 1) * size < Len(seq) THEN (i + 1) * size ELSE Len(seq)
  IN [j \in 1..(IF last > i * size THEN last - i * size ELSE 0) |-> seq[i * size + j]]

\* seq[i::num_shards] for the 0-based i
Stride(seq, i, num_shards) ==
  [j \in 1..((Len(seq) - i + num_shards - 1) \div num_shards) |->
      seq[i + (j - 1) * num_shards + 1]]

\* [seq[i::num_shards] for i in range(num_shards)]
shard_seq(seq, num_shards) ==
  [i \in 1..num_shards |-> Stride(seq, i - 1, num_shards)]

\* ------------------------------------------------------------------ inputs
\* a record of request q of caller c; raises: the forward pass (or func) raises
Record(c, q, k, raises) == [owner |-> c, req |-> q, pos |-> k, raises |-> raises]

\* the keywords lists a caller may pass: n records, at most one of them raising
\* (bad = 0: none raises, else the position of the raising one)
Keywords(c, q, n, bad) == [k \in 1..n |-> Record(c, q, k, k = bad)]

\* the func arguments: infer's default None or a picklable func; for map / imap a
\* func that loads in the worker or one whose dill.loads raises there
FuncsOf(op) == IF op = "infer" THEN {"none", "ok"} ELSE {"ok", "corrupt"}

LensOf(op) == IF op = "infer" THEN {1} ELSE 0..MaxRecords

\* ------------------------------------------------------------------ Init
\* lines 99-177: the server __init__ returns when select_usable_devices gave n
\* devices: num_workers = len(devices) (line 148) and mp.spawn(nprocs =
\* num_workers, join = False) has started that many workers; no line looks at
\* how many devices there are
Constructed(n) ==
  /\ num_workers = n
  /\ task_queue = <<>>
  /\ result_queues = <<>>
  /\ manager_up = TRUE
  /\ wpc = [w \in Workers |-> "init"]
  /\ wmsg = [w \in Workers |-> <<>>]
  /\ widx = [w \in Workers |-> 0]
  /\ cpc = [c \in Callers |-> "idle"]
  /\ cop = [c \in Callers |-> "none"]
  /\ keywords = [c \in Callers |-> <<>>]
  /\ cfunc = [c \in Callers |-> "none"]
  /\ remaining = [c \in Callers |-> 0]
  /\ received = [c \in Callers |-> <<>>]
  /\ at_yield = [c \in Callers |-> FALSE]
  /\ outcome = [c \in Callers |-> "none"]
  /\ raised_exc = [c \in Callers |-> <<>>]
  /\ req_no = [c \in Callers |-> 0]
  /\ spc = "idle"
  /\ shutdown_ret = <<>>
  /\ unjoined = Workers
  /\ signals_put = 0
  /\ signals_got = [w \in Workers |-> 0]
  /\ raised_in = [w \in Workers |-> FALSE]
  /\ ever_bad = [c \in Callers |-> FALSE]
  /\ ever_left = [c \in Callers |-> FALSE]
  /\ clean_start = [c \in Callers |-> TRUE]
  /\ dead_at_start = [c \in Callers |-> FALSE]
  /\ called_on_idle = FALSE
  /\ scope = "out"
  /\ exit_type = "none"
  /\ in_group = [w \in Workers |-> FALSE]

\* no call of shard_seq on its own is under way
NoShardCall ==
  /\ arg_seq = <<>>
  /\ arg_num_shards = 1
  /\ ret_shards = <<>>

\* a server constructed on at least one device, FSDP not enabled
Init == \E n \in 1..NumWorkers : Constructed(n) /\ NoShardCall /\ fsdp_port = "None"

\* ------------------------------------------------------------------ _worker
Terminated == {"exited", "failed", "killed"}

\* lines 294-324: model.to(device) succeeds or, when fsdp_port is not None, the
\* FSDP setup does: dist.init_process_group (line 299), the wrapping and the
\* first forward pass
WorkerInit(w) ==
  /\ wpc[w] = "init"
  /\ wpc' = [wpc EXCEPT ![w] = "ready"]
  /\ in_group' = [in_group EXCEPT ![w] = (fsdp_port # "None")]
  /\ UNCHANGED <<num_workers, task_queue, result_queues, manager_up, wmsg, widx, signals_got,
                 raised_in, cvars, svars, scope, exit_type, fsdp_port, shvars>>

\* lines 294-324, 385-388: the setup raises; the worker logs and re-raises
WorkerInitFails(w) ==
  /\ wpc[w] = "init"
  /\ wpc' = [wpc EXCEPT ![w] = "failed"]
  /\ UNCHANGED <<num_workers, task_queue, result_queues, manager_up, wmsg, widx, signals_got,
                 raised_in, cvars, svars, lvars, shvars>>

\* a worker that goes back to task_queue.get() after the shutdown signal
AfterSentinelLoops == "ready"

\* lines 329-332: on the sentinel the worker returns from _worker
AfterSentinel == "exited"

\* lines 329-332: the return leaves _worker from inside the while loop, so the
\* statements after the loop, dist.destroy_process_group() of lines 383-384
\* among them, are not executed: the worker's membership is what it was
GroupAfterSentinel(joined) == joined

\* lines 328-332: task_queue.get() returns the sentinel; the worker returns
WorkerGetSentinel(w) ==
  /\ wpc[w] = "ready"
  /\ manager_up
  /\ task_queue # <<>>
  /\ Head(task_queue) = sentinel
  /\ task_queue' = Tail(task_queue)
  /\ wpc' = [wpc EXCEPT ![w] = AfterSentinel]
  /\ signals_got' = [signals_got EXCEPT ![w] = @ + 1]
  /\ in_group' = [in_group EXCEPT ![w] = GroupAfterSentinel(@)]
  /\ UNCHANGED <<num_workers, result_queues, manager_up, wmsg, widx, raised_in, cvars, svars,
                 scope, exit_type, fsdp_port, shvars>>

\* a worker that goes back to the task queue when a task has no record
AfterGetSkipsEmpty(msg) == IF Len(msg.data) = 0 THEN "ready" ELSE "processing"

\* where the worker stands once it holds a task: the for loop over msg.data, or
\* line 380 at once when data is empty
AfterGet(msg) == IF Len(msg.data) = 0 THEN "marker" ELSE "processing"

\* a worker that logs the exception and goes back to the task queue
AfterFatalGoesOn == "ready"

\* lines 385-388: an exception outside the inner try is logged and re-raised:
\* the worker process ends with a non-zero exit code
AfterFatal == "failed"

\* a pool whose tasks are bound to workers: worker w takes the task at the head
\* of the queue only when it is the shard of index w - 1
WorkerGetTaskBound(w) ==
  /\ wpc[w] = "ready"
  /\ manager_up
  /\ task_queue # <<>>
  /\ Head(task_queue) # sentinel
  /\ Head(task_queue).data # <<>> => ((Head(task_queue).data[1].pos - 1) % num_workers) + 1 = w
  /\ task_queue' = Tail(task_queue)
  /\ LET msg == Head(task_queue) IN
       IF msg.func_dill = "corrupt" \/ msg.id \notin DOMAIN result_queues
         THEN /\ wpc' = [wpc EXCEPT ![w] = AfterFatal]
              /\ wmsg' = [wmsg EXCEPT ![w] = msg]
              /\ UNCHANGED widx
         ELSE /\ wpc' = [wpc EXCEPT ![w] = AfterGet(msg)]
              /\ wmsg' = [wmsg EXCEPT ![w] = msg]
              /\ widx' = [widx EXCEPT ![w] = 1]
  /\ UNCHANGED <<num_workers, result_queues, manager_up, signals_got, raised_in, cvars, svars, lvars, shvars>>

\* lines 328-339: task_queue.get() returns a TaskMessage; msg.func() loads the
\* func (raising, outside the inner try, when it does not load) and
\* out_qs[queue_id] finds the caller's queue
WorkerGetTask(w) ==
  /\ wpc[w] = "ready"
  /\ manager_up
  /\ task_queue # <<>>
  /\ Head(task_queue) # sentinel
  /\ task_queue' = Tail(task_queue)
  /\ LET msg == Head(task_queue) IN
       IF msg.func_dill = "corrupt" \/ msg.id \notin DOMAIN result_queues
         THEN /\ wpc' = [wpc EXCEPT ![w] = AfterFatal]
              /\ wmsg' = [wmsg EXCEPT ![w] = msg]
              /\ UNCHANGED widx
         ELSE /\ wpc' = [wpc EXCEPT ![w] = AfterGet(msg)]
              /\ wmsg' = [wmsg EXCEPT ![w] = msg]
              /\ widx' = [widx EXCEPT ![w] = 1]
  /\ UNCHANGED <<num_workers, result_queues, manager_up, signals_got, raised_in, cvars, svars, lvars, shvars>>

\* a worker that sends every result to one queue shared by all callers
ResultQueueShared(msg) == CHOOSE q \in DOMAIN result_queues : TRUE

\* lines 337-339: queue_id = msg.id; result_queue = out_qs[queue_id]
ResultQueueOf(msg) == msg.id

\* a worker that swallows the exception and reports an output all the same
ResultForSwallowed(msg, record) ==
  ResultMessage(msg.id, <<ConvertedBackOutputs(msg.func_dill, ModelForward(record))>>, <<>>)

\* lines 343-377: the ResultMessage put for a record: its converted outputs
\* (line 373), or the exception its processing raised (line 377)
ResultFor(msg, record) ==
  IF record.raises
    THEN ResultMessage(msg.id, <<>>, <<record>>)
    ELSE ResultMessage(msg.id,
           <<ConvertedBackOutputs(msg.func_dill, ModelForward(record))>>, <<>>)

\* a worker whose per-record handler goes on with the next record
AfterRecordContinues(msg, idx, raises) ==
  IF idx = Len(msg.data) THEN "marker" ELSE "processing"

\* a worker that an exception in a record takes down
AfterRecordDies(msg, idx, raises) ==
  IF raises THEN "failed" ELSE IF idx = Len(msg.data) THEN "marker" ELSE "processing"

\* where the worker stands after the record at widx: the except clause ends the
\* for loop (the try encloses the whole loop, lines 340-377), a record that
\* succeeds is followed by the next one
AfterRecord(msg, idx, raises) ==
  IF raises \/ idx = Len(msg.data) THEN "marker" ELSE "processing"

\* lines 341-377: one record of msg.data: forward pass, func and
\* result_queue.put of the outputs or, from the except clause, of the exception
WorkerRecord(w) ==
  /\ wpc[w] = "processing"
  /\ manager_up
  /\ LET msg == wmsg[w]
         record == msg.data[widx[w]]
         result == ResultFor(msg, record)
     IN /\ result_queues' = [result_queues EXCEPT ![ResultQueueOf(msg)] = Append(@, result)]
        /\ wpc' = [wpc EXCEPT ![w] = AfterRecord(msg, widx[w], record.raises)]
        /\ widx' = [widx EXCEPT ![w] = @ + 1]
        /\ raised_in' = [raised_in EXCEPT ![w] = @ \/ record.raises]
  /\ UNCHANGED <<num_workers, task_queue, manager_up, wmsg, signals_got, cvars, svars, lvars, shvars>>

\* a worker that goes back to the task queue without the completion marker
WorkerMarkerSilent(w) ==
  /\ wpc[w] = "marker"
  /\ manager_up
  /\ wpc' = [wpc EXCEPT ![w] = "ready"]
  /\ wmsg' = [wmsg EXCEPT ![w] = <<>>]
  /\ widx' = [widx EXCEPT ![w] = 0]
  /\ UNCHANGED <<num_workers, task_queue, result_queues, manager_up, signals_got, raised_in,
                 cvars, svars, lvars, shvars>>

\* line 380: result_queue.put_nowait(sentinel), then back to task_queue.get()
WorkerMarker(w) ==
  /\ wpc[w] = "marker"
  /\ manager_up
  /\ result_queues' = [result_queues EXCEPT ![ResultQueueOf(wmsg[w])] = Append(@, sentinel)]
  /\ wpc' = [wpc EXCEPT ![w] = "ready"]
  /\ wmsg' = [wmsg EXCEPT ![w] = <<>>]
  /\ widx' = [widx EXCEPT ![w] = 0]
  /\ UNCHANGED <<num_workers, task_queue, manager_up, signals_got, raised_in, cvars, svars, lvars, shvars>>

\* lines 328, 372-380, 385-388: the manager is gone, so the worker's next queue
\* operation raises (inside the inner try the except clause's own put raises
\* too); the outer except logs and re-raises
WorkerConnectionLost(w) ==
  /\ wpc[w] \in {"ready", "processing", "marker"}
  /\ ~manager_up
  /\ wpc' = [wpc EXCEPT ![w] = "failed"]
  /\ wmsg' = [wmsg EXCEPT ![w] = <<>>]
  /\ widx' = [widx EXCEPT ![w] = 0]
  /\ UNCHANGED <<num_workers, task_queue, result_queues, manager_up, signals_got, raised_in,
                 cvars, svars, lvars, shvars>>

\* ------------------------------------------------------------------ InferenceServer
InFlight(c) == cpc[c] = "collecting"

\* a registry in which every request's new queue takes the place of the one
\* registered for the thread's id
_register_fresh_result_queue_for_thread(c) ==
  [q \in DOMAIN result_queues \cup {get_queue_id(c)} |->
     IF q = get_queue_id(c) THEN <<>> ELSE result_queues[q]]

\* lines 208-213: a queue is registered for the thread's id only when the id has
\* none yet; the id's existing queue is kept, with whatever it still holds
_create_result_queue_for_thread(c) ==
  IF get_queue_id(c) \in DOMAIN result_queues
    THEN result_queues
    ELSE [q \in DOMAIN result_queues \cup {get_queue_id(c)} |->
            IF q \in DOMAIN result_queues THEN result_queues[q] ELSE <<>>]

\* the lists of records the call puts on the task queue, one TaskMessage each:
\* imap shards keywords over num_workers (line 224), infer sends [kwargs] (line 255)
ShardsOf(op, kw) == IF op = "infer" THEN <<kw>> ELSE shard_seq(kw, num_workers)

\* task_queue after self._task_queue.put(message) for each shard in turn
\* (lines 226-232; one put for infer, line 257)
RECURSIVE PutTasks(_, _, _, _)
PutTasks(queue, id, shards, func_dill) ==
  IF shards = <<>> THEN queue
  ELSE PutTasks(Append(queue, TaskMessage(id, Head(shards), func_dill)),
                id, Tail(shards), func_dill)

\* requests started on the server so far
Requests == req_no["A"] + req_no["B"]

\* how the call ends once round_robin's loop is left with remaining_workers = 0:
\* map returns the list, imap's sequence ends, infer returns result[0] (line 267),
\* an IndexError when the list is empty
Finished(op, got) ==
  IF op = "infer" /\ got = <<>> THEN "index_error" ELSE "returned"

\* lines 215-238 / 240-266 up to the first turn of round_robin: the result queue
\* of the calling thread is looked up or created, one TaskMessage per shard is
\* put on the task queue (no put blocks: the queue is unbounded) and round_robin
\* starts with num_to_wait = len(shards), leaving its loop at once when there
\* is no shard (line 438)
Request(c, limit, raising, funcs) ==
  /\ cpc[c] = "idle"
  /\ Requests < limit
  /\ manager_up
  /\ \E op \in Ops : \E n \in LensOf(op) : \E bad \in (IF raising THEN 0..n ELSE {0}) :
     \E f \in FuncsOf(op) \cap funcs :
       LET kw == Keywords(c, req_no[c] + 1, n, bad) IN
         /\ cop' = [cop EXCEPT ![c] = op]
         /\ keywords' = [keywords EXCEPT ![c] = kw]
         /\ cfunc' = [cfunc EXCEPT ![c] = f]
         /\ task_queue' = PutTasks(task_queue, get_queue_id(c), ShardsOf(op, kw), f)
         /\ remaining' = [remaining EXCEPT ![c] = Len(ShardsOf(op, kw))]
         /\ ever_bad' = [ever_bad EXCEPT ![c] = @ \/ bad # 0]
         /\ IF Len(ShardsOf(op, kw)) = 0
              THEN /\ cpc' = [cpc EXCEPT ![c] = "idle"]
                   /\ outcome' = [outcome EXCEPT ![c] = Finished(op, <<>>)]
              ELSE /\ cpc' = [cpc EXCEPT ![c] = "collecting"]
                   /\ outcome' = [outcome EXCEPT ![c] = "pending"]
  /\ result_queues' = _create_result_queue_for_thread(c)
  /\ req_no' = [req_no EXCEPT ![c] = @ + 1]
  /\ received' = [received EXCEPT ![c] = <<>>]
  /\ at_yield' = [at_yield EXCEPT ![c] = FALSE]
  /\ raised_exc' = [raised_exc EXCEPT ![c] = <<>>]
  /\ clean_start' = [clean_start EXCEPT ![c] =
                       get_queue_id(c) \in DOMAIN result_queues => result_queues[get_queue_id(c)] = <<>>]
  /\ dead_at_start' = [dead_at_start EXCEPT ![c] =
                         \E w \in Workers : wpc[w] \in Terminated /\ wmsg[w] = <<>>]
  /\ UNCHANGED <<num_workers, manager_up, ever_left, wvars, svars, lvars, shvars>>

\* a request with any records and any func
Dispatch(c, limit) == Request(c, limit, TRUE, {"none", "ok", "corrupt"})

\* a request none of whose records raises, with a func that loads in the worker
StartClean(c) == Request(c, LiveRequests, FALSE, {"none", "ok"})

\* a request on a server nobody shuts down
Start(c) == Dispatch(c, MaxRequests)

\* a request on a server that is shut down at some point
StartOnce(c) == Dispatch(c, LifecycleRequests)

\* line 210 after shutdown(): self._manager.Queue() raises in the caller
StartFails(c) ==
  /\ cpc[c] = "idle"
  /\ Requests < LifecycleRequests
  /\ ~manager_up
  /\ \E op \in Ops : cop' = [cop EXCEPT ![c] = op]
  /\ req_no' = [req_no EXCEPT ![c] = @ + 1]
  /\ keywords' = [keywords EXCEPT ![c] = <<>>]
  /\ received' = [received EXCEPT ![c] = <<>>]
  /\ at_yield' = [at_yield EXCEPT ![c] = FALSE]
  /\ outcome' = [outcome EXCEPT ![c] = "connection_error"]
  /\ raised_exc' = [raised_exc EXCEPT ![c] = <<>>]
  /\ UNCHANGED <<num_workers, task_queue, result_queues, manager_up, cpc, cfunc,
                 remaining, ever_bad, ever_left, clean_start, dead_at_start, wvars, svars,
                 lvars, shvars>>

\* a collector that goes on with the next item after an error-carrying Result
AfterRaiseGoesOn == "collecting"

\* line 455: raise item.exception leaves round_robin and the call
AfterRaise == "idle"

\* lines 438-457: one turn of round_robin's loop that gets an item
Collect(c) ==
  /\ cpc[c] = "collecting"
  /\ manager_up
  /\ remaining[c] > 0
  /\ result_queues[get_queue_id(c)] # <<>>
  /\ LET item == Head(result_queues[get_queue_id(c)]) IN
       /\ result_queues' = [result_queues EXCEPT ![get_queue_id(c)] = Tail(@)]
       /\ IF item = sentinel
            THEN /\ remaining' = [remaining EXCEPT ![c] = @ - 1]
                 /\ at_yield' = [at_yield EXCEPT ![c] = FALSE]
                 /\ IF remaining[c] = 1
                      THEN /\ cpc' = [cpc EXCEPT ![c] = "idle"]
                           /\ outcome' = [outcome EXCEPT ![c] = Finished(cop[c], received[c])]
                      ELSE UNCHANGED <<cpc, outcome>>
                 /\ UNCHANGED <<received, raised_exc>>
            ELSE IF item.exception # <<>>
              THEN /\ cpc' = [cpc EXCEPT ![c] = AfterRaise]
                   /\ outcome' = [outcome EXCEPT ![c] = "raised"]
                   /\ raised_exc' = [raised_exc EXCEPT ![c] = item.exception]
                   /\ at_yield' = [at_yield EXCEPT ![c] = FALSE]
                   /\ UNCHANGED <<remaining, received>>
              ELSE /\ received' = [received EXCEPT ![c] = Append(@, item.data[1])]
                   /\ at_yield' = [at_yield EXCEPT ![c] = (cop[c] = "imap")]
                   /\ UNCHANGED <<cpc, outcome, raised_exc, remaining>>
  /\ UNCHANGED <<num_workers, task_queue, manager_up, cop, keywords, cfunc, req_no,
                 ever_bad, ever_left, clean_start, dead_at_start, wvars, svars, lvars, shvars>>

\* imap is a generator (line 234): its consumer stops iterating while the
\* generator is suspended at the yield of line 457
Abandon(c) ==
  /\ cpc[c] = "collecting"
  /\ cop[c] = "imap"
  /\ at_yield[c]
  /\ cpc' = [cpc EXCEPT ![c] = "idle"]
  /\ outcome' = [outcome EXCEPT ![c] = "abandoned"]
  /\ ever_left' = [ever_left EXCEPT ![c] = TRUE]
  /\ at_yield' = [at_yield EXCEPT ![c] = FALSE]
  /\ UNCHANGED <<num_workers, task_queue, result_queues, manager_up, cop, keywords,
                 cfunc, remaining, received, raised_exc, req_no, ever_bad, clean_start,
                 dead_at_start, wvars, svars, lvars, shvars>>

\* line 440 after shutdown(): result_queue.get raises a connection error, not
\* queues.Empty, and round_robin lets it through to the caller
CallerConnectionLost(c) ==
  /\ InFlight(c)
  /\ ~manager_up
  /\ cpc' = [cpc EXCEPT ![c] = "idle"]
  /\ outcome' = [outcome EXCEPT ![c] = "connection_error"]
  /\ at_yield' = [at_yield EXCEPT ![c] = FALSE]
  /\ UNCHANGED <<num_workers, task_queue, result_queues, manager_up, cop, keywords,
                 cfunc, remaining, received, raised_exc, req_no, ever_bad, ever_left,
                 clean_start, dead_at_start, wvars, svars, lvars, shvars>>

\* ------------------------------------------------------------------ shutdown
\* task_queue after the loop of lines 183-187: put_nowait(sentinel) num_workers
\* times (the queue is unbounded, so no put is refused)
RECURSIVE PutSentinels(_, _)
PutSentinels(queue, n) ==
  IF n = 0 THEN queue ELSE PutSentinels(Append(queue, sentinel), n - 1)

\* a shutdown() without its outer try / except
ShutdownResultUncaught(body) == body

\* lines 180, 190-191: what shutdown() hands to its caller for what its body
\* did: "True" / "False" returned by join, and False for any Exception raised
ShutdownResult(body) == IF body = "raise" THEN "False" ELSE body

\* ProcessContext.join() on the workers that have exited among those not yet
\* joined: raise when one has a non-zero exit code, else whether all are joined
JoinResult(ready, left) ==
  IF \E w \in ready : wpc[w] = "failed" THEN "raise"
  ELSE IF left = {} THEN "True" ELSE "False"

\* lines 183-187 with the manager running: the shutdown signals are enqueued
ShutdownSignal ==
  /\ spc = "idle"
  /\ Len(shutdown_ret) < MaxShutdowns
  /\ manager_up
  /\ task_queue' = PutSentinels(task_queue, num_workers)
  /\ signals_put' = signals_put + num_workers
  /\ spc' = "signalled"
  /\ called_on_idle' = (task_queue = <<>> /\ \A w \in Workers : wpc[w] = "ready")
  /\ UNCHANGED <<num_workers, result_queues, manager_up, shutdown_ret, unjoined, wvars, cvars,
                 shvars>>

\* lines 183-191 after an earlier shutdown(): the first put_nowait raises a
\* connection error, which the outer except turns into False
ShutdownAgain ==
  /\ spc = "idle"
  /\ Len(shutdown_ret) < MaxShutdowns
  /\ ~manager_up
  /\ shutdown_ret' = Append(shutdown_ret, ShutdownResult("raise"))
  /\ UNCHANGED <<num_workers, task_queue, result_queues, manager_up, spc, unjoined, signals_put,
                 called_on_idle, wvars, cvars, shvars>>

\* a shutdown() that leaves the manager running
ManagerLeftRunning == TRUE

\* line 188: whether the manager runs once self._manager.shutdown() has returned
ManagerAfterShutdown == FALSE

\* line 188: self._manager.shutdown(); the manager process ends and what its
\* queues hold goes with it
ShutdownManager ==
  /\ spc = "signalled"
  /\ manager_up' = ManagerAfterShutdown
  /\ task_queue' = <<>>
  /\ result_queues' = [q \in DOMAIN result_queues |-> <<>>]
  /\ spc' = "joining"
  /\ UNCHANGED <<num_workers, shutdown_ret, unjoined, signals_put, called_on_idle, wvars, cvars,
                 lvars, shvars>>

\* lines 189-191: self._process_ctx.join() returns once a worker has exited (at
\* once when there is none to join); on a non-zero exit code it terminates the
\* workers still alive and raises
ShutdownJoin ==
  /\ spc = "joining"
  /\ LET ready == {w \in unjoined : wpc[w] \in Terminated}
         body == JoinResult(ready, unjoined \ ready)
     IN /\ ready # {} \/ unjoined = {}
        /\ unjoined' = unjoined \ ready
        /\ IF body = "raise"
             THEN /\ wpc' = [w \in Workers |->
                              IF wpc[w] \in Terminated THEN wpc[w] ELSE "killed"]
                  /\ wmsg' = [w \in Workers |-> <<>>]
                  /\ widx' = [w \in Workers |-> 0]
             ELSE UNCHANGED <<wpc, wmsg, widx>>
        /\ shutdown_ret' = Append(shutdown_ret, ShutdownResult(body))
  /\ spc' = "idle"
  /\ UNCHANGED <<num_workers, task_queue, result_queues, manager_up, signals_put,
                 called_on_idle, signals_got, raised_in, cvars, lvars, shvars>>

\* ------------------------------------------------------------------ specification
\* the server while nobody calls shutdown()
ServeNext ==
  \/ \E w \in Workers : WorkerInit(w)
  \/ \E w \in Workers : WorkerInitFails(w)
  \/ \E w \in Workers : WorkerGetTask(w)
  \/ \E w \in Workers : WorkerRecord(w)
  \/ \E w \in Workers : WorkerMarker(w)
  \/ \E c \in Callers : Start(c)
  \/ \E c \in Callers : Collect(c)
  \/ \E c \in Callers : Abandon(c)

ServeSpec == Init /\ [][ServeNext]_vars

\* the server while every worker stays alive, no record raises and every func
\* loads; the operating system lets every worker process and every calling
\* thread that can take a step take it in the end
LiveNext ==
  \/ \E w \in Workers : WorkerInit(w)
  \/ \E w \in Workers : WorkerGetTask(w)
  \/ \E w \in Workers : WorkerRecord(w)
  \/ \E w \in Workers : WorkerMarker(w)
  \/ \E c \in Callers : StartClean(c)
  \/ \E c \in Callers : Collect(c)
  \/ \E c \in Callers : Abandon(c)

LiveSpec ==
  /\ Init
  /\ [][LiveNext]_vars
  /\ \A w \in 1..NumWorkers :
       /\ WF_vars(w \in Workers /\ WorkerInit(w))
       /\ WF_vars(w \in Workers /\ WorkerGetTask(w))
       /\ WF_vars(w \in Workers /\ WorkerRecord(w))
       /\ WF_vars(w \in Workers /\ WorkerMarker(w))
  /\ \A c \in Callers : WF_vars(Collect(c))

\* lines 294-324 raise in worker w while another worker's process runs: w ends
\* before its first task_queue.get(), and the pool keeps a live worker
WorkerDiesIdle(w) ==
  /\ \E v \in Workers \ {w} : wpc[v] \notin Terminated
  /\ WorkerInitFails(w)

\* the server while nobody shuts it down, no record raises and every func
\* loads, some of its workers dying idle
StealNext ==
  \/ \E w \in Workers : WorkerInit(w)
  \/ \E w \in Workers : WorkerDiesIdle(w)
  \/ \E w \in Workers : WorkerGetTask(w)
  \/ \E w \in Workers : WorkerRecord(w)
  \/ \E w \in Workers : WorkerMarker(w)
  \/ \E c \in Callers : StartClean(c)
  \/ \E c \in Callers : Collect(c)
  \/ \E c \in Callers : Abandon(c)

\* a running worker process takes its next step, the collecting thread its
\* next turn; nothing makes a worker die
StealSpec ==
  /\ Init
  /\ [][StealNext]_vars
  /\ \A w \in 1..NumWorkers :
       /\ WF_vars(w \in Workers /\ WorkerInit(w))
       /\ WF_vars(w \in Workers /\ WorkerGetTask(w))
       /\ WF_vars(w \in Workers /\ WorkerRecord(w))
       /\ WF_vars(w \in Workers /\ WorkerMarker(w))
  /\ \A c \in Callers : WF_vars(Collect(c))

\* the server from construction to after shutdown()
Next ==
  \/ \E w \in Workers : WorkerInit(w)
  \/ \E w \in Workers : WorkerInitFails(w)
  \/ \E w \in Workers : WorkerGetSentinel(w)
  \/ \E w \in Workers : WorkerGetTask(w)
  \/ \E w \in Workers : WorkerRecord(w)
  \/ \E w \in Workers : WorkerMarker(w)
  \/ \E w \in Workers : WorkerConnectionLost(w)
  \/ \E c \in Callers : StartOnce(c)
  \/ \E c \in Callers : StartFails(c)
  \/ \E c \in Callers : Collect(c)
  \/ \E c \in Callers : Abandon(c)
  \/ \E c \in Callers : CallerConnectionLost(c)
  \/ ShutdownSignal /\ UNCHANGED lvars
  \/ ShutdownAgain /\ UNCHANGED lvars
  \/ ShutdownManager
  \/ ShutdownJoin

Spec == Init /\ [][Next]_vars

\* ------------------------------------------------------------------ the server's lifecycle
\* the numbers of devices select_usable_devices(num_workers, min_memory) may
\* return: the Device Selector "may return fewer than requested", none when no
\* device is usable
select_usable_devices(requested) == 0..requested

\* lines 149-151: fsdp_port is None, or the port find_available_port() found
\* when self.fsdp.fsdp_enabled
FsdpPorts == {"None", "port"}

\* a server constructed on the devices the selector returned, with FSDP
\* enabled or not
LifeInit ==
  \E n \in select_usable_devices(NumWorkers) :
    Constructed(n) /\ NoShardCall /\ fsdp_port \in FsdpPorts

\* exc_type of __exit__: None when the body of the with statement ended
\* normally, the exception's type when it raised
ExcTypes == {"None", "Error"}

\* lines 194-195: the with statement is entered; __enter__ returns self
__enter__ ==
  /\ scope = "out"
  /\ scope' = "in"
  /\ UNCHANGED <<num_workers, task_queue, result_queues, manager_up, exit_type,
                 wvars, cvars, svars, fvars, shvars>>

\* an __exit__ that cleans up only when the body ended normally
ExitCallsShutdownOnSuccess(exc_type) == exc_type = "None"

\* lines 197-198: __exit__ calls self.shutdown() whatever exc_type is
ExitCallsShutdown(exc_type) == TRUE

\* lines 197-198: the with statement is left, normally or by an exception, and
\* __exit__ runs shutdown() up to the end of its loop of put_nowait
__exit__ ==
  /\ scope = "in"
  /\ scope' = "left"
  /\ UNCHANGED fvars
  /\ \E exc_type \in ExcTypes :
       /\ exit_type' = exc_type
       /\ IF ExitCallsShutdown(exc_type)
            THEN ShutdownSignal \/ ShutdownAgain
            ELSE UNCHANGED <<num_workers, task_queue, result_queues, manager_up,
                             wvars, cvars, svars, shvars>>

\* the server from construction, used in a with statement or not, to after
\* shutdown()
LifeNext ==
  \/ Next
  \/ __enter__
  \/ __exit__

LifeSpec == LifeInit /\ [][LifeNext]_vars

\* ------------------------------------------------------------------ shard_seq on its own
\* the items of the sequences handed to shard_seq
Items == {"a", "b"}

\* the sequences of at most n items
SeqsUpTo(n) == UNION {[1..k -> Items] : k \in 0..n}

\* a call shard_seq(seq, num_shards) with num_shards >= 1 is about to run
ShardInit ==
  /\ Constructed(1)
  /\ fsdp_port = "None"
  /\ arg_seq \in SeqsUpTo(MaxItems)
  /\ arg_num_shards \in 1..MaxShards
  /\ ret_shards = <<>>

\* lines 87-89: shard_seq returns
ShardSeq ==
  /\ ret_shards = <<>>
  /\ ret_shards' = <<shard_seq(arg_seq, arg_num_shards)>>
  /\ UNCHANGED <<num_workers, task_queue, result_queues, manager_up, arg_seq,
                 arg_num_shards, wvars, cvars, svars, lvars>>

ShardNext == ShardSeq

ShardSpec == ShardInit /\ [][ShardNext]_vars

\* ------------------------------------------------------------------ helpers of the properties
Range(seq) == {seq[i] : i \in DOMAIN seq}

BagOfSeq(seq) == [x \in Range(seq) |-> Cardinality({i \in DOMAIN seq : seq[i] = x})]

\* the (caller, request, position) of the record a payload was computed from
PayloadSource(p) == IF "hidden" \in DOMAIN p THEN p.hidden ELSE p.applied

\* the payloads caller c may receive for records it has dispatched so far
PayloadsOf(c) ==
  {Expected(f, Record(c, q, k, FALSE)) :
     f \in {"none", "ok"}, q \in 1..req_no[c], k \in 1..MaxRecords}

\* the results the current / last request of c is meant to bring back
ExpectedOf(c) == [k \in DOMAIN keywords[c] |-> Expected(cfunc[c], keywords[c][k])]

\* the positions of the raising records of the current / last request of c
BadOf(c) == {k \in DOMAIN keywords[c] : keywords[c][k].raises}

\* the request of c has ended by returning or by raising in the caller
Ended(c) == outcome[c] \in {"returned", "raised", "index_error"}

\* the payloads in a queue
PayloadsIn(queue) ==
  {queue[i].data[1] : i \in {j \in DOMAIN queue : queue[j] # sentinel /\ queue[j].data # <<>>}}

\* the error-carrying results in a queue
ErrorsIn(queue) ==
  {queue[i] : i \in {j \in DOMAIN queue : queue[j] # sentinel /\ queue[j].exception # <<>>}}

\* ------------------------------------------------------------------ C1
\* C1: with two callers of different identities on the same pool, every payload
\* yielded to a caller was computed from a record this caller dispatched, and a
\* caller none of whose records raises and who takes all its results has, when
\* its request returns, as many results as the request had records.
C1_OwnResultsOnly ==
  \A c \in Callers :
    /\ Range(received[c]) \subseteq PayloadsOf(c)
    /\ (outcome[c] = "returned" /\ ~ever_bad[c] /\ ~ever_left[c])
         => Len(received[c]) = Len(keywords[c])

\* both callers are in flight on a pool of two workers, each has been yielded a
\* payload and A has been yielded one per record it dispatched
C1_Witness ==
  /\ num_workers = 2
  /\ \A c \in Callers : cpc[c] = "collecting" /\ received[c] # <<>> /\ ~ever_left[c]
  /\ Len(keywords["A"]) = 2
  /\ Len(received["A"]) = 2

\* ------------------------------------------------------------------ C2
\* C2: a map that returns gives back exactly len(records) results, whose multiset
\* is that of func applied to the model output of each record.
C2_MapReturnsAll ==
  \A c \in Callers :
    (cop[c] = "imap" /\ outcome[c] = "returned")
      => BagOfSeq(received[c]) = BagOfSeq(ExpectedOf(c))

\* ------------------------------------------------------------------ C3
\* C3: an infer that has ended either returned the payload computed for its one
\* record or re-raised the error the worker reported for that record: it did not
\* return another record's payload and did not end without a result.
C3_InferOwnResult ==
  \A c \in Callers :
    (cop[c] = "infer" /\ Ended(c)) =>
      \/ outcome[c] = "returned" /\ received[c][1] = ExpectedOf(c)[1]
      \/ outcome[c] = "raised" /\ raised_exc[c] = <<keywords[c][1]>>

Reported(c, b) ==
  {k \in DOMAIN keywords[c] :
     k # b /\ ~(k > b /\ cop[c] = "imap" /\ (k - b) % num_workers = 0)}

C6_WorkerSurvivesRaise ==
  /\ [][\A w \in Workers :
          /\ (wpc[w] = "processing" /\ widx'[w] # widx[w] /\ wmsg[w].data[widx[w]].raises)
               => (wpc'[w] = "marker" /\ raised_in'[w])
          /\ (raised_in[w] /\ wpc[w] = "marker" /\ wpc'[w] # "marker")
               => /\ wpc'[w] = "ready"
                  /\ result_queues'[wmsg[w].id] = Append(result_queues[wmsg[w].id], sentinel)]_vars
  /\ [](\A w \in Workers :
          (raised_in[w] /\ wpc[w] = "marker" /\ \A k \in DOMAIN wmsg[w].data : ~wmsg[w].data[k].raises)
            => widx[w] = Len(wmsg[w].data) + 1)

\* a worker in which a record has raised is at the marker of a later task, all of
\* whose records it has answered
C6_Witness ==
  \E w \in Workers :
    /\ raised_in[w]
    /\ wpc[w] = "marker"
    /\ wmsg[w].data # <<>>
    /\ \A k \in DOMAIN wmsg[w].data : ~wmsg[w].data[k].raises
    /\ widx[w] = Len(wmsg[w].data) + 1

\* ------------------------------------------------------------------ C7
\* C7: an error-carrying Result lies only in the result queue of the caller whose
\* record raised, an error re-raised to a caller is that of one of its own
\* records, and a caller none of whose records raises and who takes all its
\* results is not raised at and gets all the results of its request.
C7_ErrorsStayWithCaller ==
  \A c \in Callers :
    /\ c \in DOMAIN result_queues =>
         \A e \in ErrorsIn(result_queues[c]) : e.id = c /\ e.exception[1].owner = c
    /\ raised_exc[c] # <<>> => raised_exc[c][1].owner = c
    /\ (~ever_bad[c] /\ ~ever_left[c]) =>
         /\ outcome[c] \in {"none", "pending", "returned"}
         /\ outcome[c] = "returned" => BagOfSeq(received[c]) = BagOfSeq(ExpectedOf(c))

\* the error of A's record has been re-raised to A while B, in flight at the
\* same time on the same pool, has been yielded a result of its own
C7_Witness ==
  /\ outcome["A"] = "raised"
  /\ req_no["A"] = 1 /\ req_no["B"] = 1
  /\ ~ever_bad["B"]
  /\ cpc["B"] = "collecting"
  /\ received["B"] # <<>>
  /\ \E w \in Workers : wpc[w] \in {"processing", "marker"} /\ wmsg[w].id = "A"

\* ------------------------------------------------------------------ C8
\* C8: every shutdown() call, the first as well as a later one, whatever the
\* state of the workers and of the manager, has handed its caller True or False
\* and has not let an exception through.
C8_ShutdownNeverRaises ==
  \A i \in DOMAIN shutdown_ret : shutdown_ret[i] \in {"True", "False"}

\* two shutdown() calls have returned; join raised in the first, on a worker that
\* had failed, and terminated a worker that was busy
C8_Witness ==
  /\ Len(shutdown_ret) = 2
  /\ \E w \in Workers : wpc[w] = "failed"
  /\ \E w \in Workers : wpc[w] = "killed"

\* ------------------------------------------------------------------ C9
\* the shutdown signals on the task queue
SignalsQueued == Cardinality({i \in DOMAIN task_queue : task_queue[i] = sentinel})

\* the workers that have consumed a shutdown signal
SignalsConsumed == Cardinality({w \in Workers : signals_got[w] > 0})

\* C9 as claimed: once shutdown() has returned and every worker has ended,
\* num_workers signals have been enqueued and every worker has consumed one.
C9_EverySignalConsumed ==
  (shutdown_ret # <<>> /\ \A w \in Workers : wpc[w] \in Terminated) =>
    /\ signals_put = num_workers
    /\ \A w \in Workers : signals_got[w] = 1

\* C9 as amended: the first shutdown() call enqueues exactly num_workers signals
\* and a later call none; no worker consumes two and no signal is consumed
\* twice (while the manager runs every signal is either queued or consumed by
\* one worker, which has exited); signals may be left unconsumed.
C9_SignalsAtMostOnce ==
  /\ signals_put = (IF spc = "idle" /\ shutdown_ret = <<>> THEN 0 ELSE num_workers)
  /\ \A w \in Workers : signals_got[w] <= 1 /\ (signals_got[w] = 1 <=> wpc[w] = "exited")
  /\ SignalsConsumed <= signals_put
  /\ manager_up => SignalsConsumed + SignalsQueued = signals_put

\* shutdown() has been called twice and every worker has ended, one by
\* consuming its signal and one without consuming any
C9_Witness ==
  /\ Len(shutdown_ret) = 2
  /\ \A w \in Workers : wpc[w] \in Terminated
  /\ \E w \in Workers : signals_got[w] = 1
  /\ \E w \in Workers : signals_got[w] = 0

\* ------------------------------------------------------------------ C10
\* C10: once shutdown() has returned, every worker process has terminated.
C10_AllWorkersTerminated ==
  shutdown_ret # <<>> => \A w \in Workers : wpc[w] \in Terminated

\* ------------------------------------------------------------------ C11
\* C11: a shutdown() called while every worker is alive and waiting on the empty
\* task queue returns True, every worker then has exited by consuming a shutdown
\* signal, and no worker fails.
C11_HealthyShutdownTrue ==
  called_on_idle =>
    /\ \A w \in Workers : wpc[w] # "failed"
    /\ shutdown_ret # <<>> =>
         /\ shutdown_ret[1] = "True"
         /\ \A w \in Workers : wpc[w] = "exited" /\ signals_got[w] = 1

\* ------------------------------------------------------------------ C12
\* C12: once a shutdown() call has returned the manager is gone, and every
\* infer / map / imap call made from then on raises in its caller: it puts no
\* task on the task queue and does not start waiting for results.
C12_NoDispatchAfterShutdown ==
  /\ [](shutdown_ret # <<>> => ~manager_up)
  /\ [][\A c \in Callers :
          (shutdown_ret # <<>> /\ req_no'[c] # req_no[c])
            => /\ outcome'[c] = "connection_error"
               /\ cpc'[c] = "idle"
               /\ task_queue' = task_queue
               /\ result_queues' = result_queues]_vars

\* shutdown() has returned and a caller's first request, made on the server
\* without a manager, has raised before any task was put
C12_Witness ==
  /\ shutdown_ret # <<>>
  /\ \E c \in Callers :
       /\ req_no[c] = 1
       /\ cpc[c] = "idle"
       /\ outcome[c] = "connection_error"
       /\ remaining[c] = 0
       /\ c \notin DOMAIN result_queues

\* ------------------------------------------------------------------ C13
\* C13: the step that leaves the with statement, whether its body ended normally
\* or raised, starts a shutdown() call: on a running manager it enqueues the
\* num_workers shutdown signals, on a manager already shut down the call
\* returns False.
C13_ExitInvokesShutdown ==
  [][(scope = "in" /\ scope' = "left")
       => /\ exit_type' \in ExcTypes
          /\ spc = "idle"
          /\ \/ /\ manager_up
                /\ spc' = "signalled"
                /\ task_queue' = PutSentinels(task_queue, num_workers)
                /\ signals_put' = signals_put + num_workers
             \/ /\ ~manager_up
                /\ shutdown_ret' = Append(shutdown_ret, "False")]_vars

\* the body of the with statement raised, and the one shutdown() call made on
\* the server, that of __exit__, has shut the pool down and returned True
C13_Witness ==
  /\ scope = "left"
  /\ exit_type = "Error"
  /\ num_workers = 2
  /\ shutdown_ret = <<"True">>
  /\ \A w \in Workers : wpc[w] = "exited"

\* ------------------------------------------------------------------ C17
\* C17: no request is ever accepted by a server constructed with num_workers = 0:
\* construction fails when the device selector returns no device.
C17_NoEmptyPool ==
  \A c \in Callers : req_no[c] > 0 => num_workers >= 1

\* ------------------------------------------------------------------ C14
\* the lengths of the shards, added up
RECURSIVE SumLens(_)
SumLens(sh) == IF sh = <<>> THEN 0 ELSE Len(Head(sh)) + SumLens(Tail(sh))

\* the shards read one item from each in turn, over and over
Interleave(sh) ==
  [i \in 1..SumLens(sh) |-> sh[((i - 1) % Len(sh)) + 1][((i - 1) \div Len(sh)) + 1]]

\* C14: shard_seq(seq, W) with W >= 1 returns exactly W shards, item i of seq
\* (from 0) is in shard i mod W at position i div W, the shard lengths sum to
\* len(seq) (so every item is in exactly one shard) and reading the shards in
\* turn gives seq back.
C14_ShardsInterleave ==
  ret_shards # <<>> =>
    LET sh == ret_shards[1]
        N == Len(arg_seq)
        W == arg_num_shards
    IN /\ Len(sh) = W
       /\ \A i \in 0..(N - 1) :
            /\ (i \div W) + 1 \in DOMAIN sh[(i % W) + 1]
            /\ sh[(i % W) + 1][(i \div W) + 1] = arg_seq[i + 1]
       /\ SumLens(sh) = N
       /\ Interleave(sh) = arg_seq

\* five items, not all equal, have been sharded three ways
C14_Witness ==
  /\ ret_shards # <<>>
  /\ Len(arg_seq) = 5 /\ arg_num_shards = 3
  /\ arg_seq[1] # arg_seq[2] /\ arg_seq[1] # arg_seq[4]
  /\ ret_shards[1] = << <<arg_seq[1], arg_seq[4]>>, <<arg_seq[2], arg_seq[5]>>,
                        <<arg_seq[3]>> >>

\* ------------------------------------------------------------------ C15
\* C15: the lengths of any two shards shard_seq returns differ by at most 1, and
\* with fewer items than shards every shard has one item or none.
C15_ShardsBalanced ==
  ret_shards # <<>> =>
    LET sh == ret_shards[1] IN
      /\ \A i, j \in DOMAIN sh : Len(sh[i]) - Len(sh[j]) <= 1
      /\ Len(arg_seq) < arg_num_shards => \A i \in DOMAIN sh : Len(sh[i]) \in {0, 1}

\* two items have been sharded three ways: two shards of one item, one of none
C15_Witness ==
  /\ ret_shards # <<>>
  /\ Len(arg_seq) = 2 /\ arg_num_shards = 3
  /\ Len(ret_shards[1][1]) = 1 /\ Len(ret_shards[1][2]) = 1 /\ Len(ret_shards[1][3]) = 0

\* ------------------------------------------------------------------ C16
\* C16: on a pool of one worker a map of zero records returns without waiting
\* for any message of the worker: the call is never found in round_robin with a
\* completion marker outstanding.
C16_EmptyMapNoWait ==
  \A c \in Callers :
    (num_workers = 1 /\ cop[c] = "imap" /\ keywords[c] = <<>> /\ req_no[c] > 0)
      => ~(cpc[c] = "collecting" /\ remaining[c] > 0)

\* ------------------------------------------------------------------ C18
\* C18: a worker that takes a task and does not die on it (on a func that does
\* not load) pushes nothing in that step and stands in the
\* loop over the records or, for a task without records, at the marker; each
\* step over a record pushes one Result (a payload or an error) to the queue of
\* the task's caller; the worker lets go of the task in one way only, the step
\* from the marker that appends exactly one completion marker to that queue;
\* and a worker back on the task queue holds no task.
C18_OneMarkerPerTask ==
  /\ [](\A w \in Workers : wpc[w] = "ready" => wmsg[w] = <<>>)
  /\ [][\A w \in Workers :
          /\ (wmsg[w] = <<>> /\ wmsg'[w] # <<>> /\ wpc'[w] \notin Terminated)
               => /\ wpc'[w] = (IF wmsg'[w].data = <<>> THEN "marker" ELSE "processing")
                  /\ result_queues' = result_queues
          /\ (wpc[w] = "processing" /\ widx'[w] # widx[w])
               => /\ wpc'[w] \in {"processing", "marker"}
                  /\ LET old == result_queues[wmsg[w].id]
                         new == result_queues'[wmsg[w].id]
                     IN /\ Len(new) = Len(old) + 1
                        /\ SubSeq(new, 1, Len(old)) = old
                        /\ new[Len(new)].kind = "result"
                        /\ new[Len(new)].id = wmsg[w].id
                  /\ \A q \in DOMAIN result_queues \ {wmsg[w].id} :
                       result_queues'[q] = result_queues[q]
          /\ (wmsg[w] # <<>> /\ wmsg'[w] = <<>>)
               => /\ wpc[w] = "marker" /\ wpc'[w] = "ready"
                  /\ result_queues' =
                       [result_queues EXCEPT ![wmsg[w].id] = Append(@, sentinel)]]_vars

\* the one worker has answered A's task of two records with two Results and
\* then one marker, and B's task of no record with one marker
C18_Witness ==
  /\ num_workers = 1
  /\ wpc[1] = "ready"
  /\ req_no["A"] = 1 /\ req_no["B"] = 1
  /\ Len(keywords["A"]) = 2 /\ keywords["B"] = <<>> /\ cop["B"] = "imap"
  /\ Len(result_queues["A"]) = 3
  /\ result_queues["A"][1] # sentinel /\ result_queues["A"][2] # sentinel
  /\ result_queues["A"][3] = sentinel
  /\ result_queues["B"] = <<sentinel>>

\* ------------------------------------------------------------------ C20
\* C20: the turn of the collector that takes an error-carrying Result raises its
\* error in the caller and ends the call, with the outstanding-marker counter
\* still above zero and nothing yielded in that turn; and from then on, until the
\* caller's next request, the caller is yielded nothing more and no item leaves
\* its result queue.
C20_RaiseAtOnce ==
  /\ [][\A c \in Callers :
          (c \in DOMAIN result_queues /\ cpc[c] = "collecting"
             /\ result_queues[c] # <<>>
             /\ result_queues'[c] = Tail(result_queues[c])
             /\ Head(result_queues[c]) # sentinel
             /\ Head(result_queues[c]).exception # <<>>)
          => /\ cpc'[c] = "idle"
             /\ outcome'[c] = "raised"
             /\ raised_exc'[c] = Head(result_queues[c]).exception
             /\ received'[c] = received[c]
             /\ remaining'[c] = remaining[c] /\ remaining[c] > 0]_vars
  /\ [][\A c \in Callers :
          (outcome[c] = "raised" /\ req_no'[c] = req_no[c])
          => /\ cpc'[c] = "idle"
             /\ received'[c] = received[c]
             /\ Len(result_queues'[c]) >= Len(result_queues[c])
             /\ SubSeq(result_queues'[c], 1, Len(result_queues[c])) = result_queues[c]]_vars

\* on two workers a request of two records has raised the error of one of them
\* while both completion markers were outstanding; the payload of the other
\* record lies in the result queue, not yielded
C20_Witness ==
  \E c \in Callers :
    /\ num_workers = 2
    /\ req_no[c] = 1
    /\ outcome[c] = "raised"
    /\ remaining[c] = 2
    /\ received[c] = <<>>
    /\ PayloadsIn(result_queues[c]) # {}

\* ------------------------------------------------------------------ C19
\* the completion markers on their way to caller c: in its result queue, due for
\* its tasks on the task queue and due from the workers that hold a task of c
MarkersDue(c) ==
  Cardinality({i \in DOMAIN result_queues[c] : result_queues[c][i] = sentinel})
  + Cardinality({i \in DOMAIN task_queue : task_queue[i] # sentinel /\ task_queue[i].id = c})
  + Cardinality({w \in Workers : wmsg[w] # <<>> /\ wmsg[w].id = c})

\* C19: while the workers stay alive and no record raises, a request that has
\* returned has taken one marker per dispatched shard (its counter is zero), the
\* markers on their way to a caller who never left an imap early are exactly as
\* many as its collector still waits for, and every request in flight ends: its
\* collector leaves the loop.
C19_RequestsComplete ==
  /\ [](\A c \in Callers :
          /\ outcome[c] = "returned" => remaining[c] = 0
          /\ (c \in DOMAIN result_queues /\ ~ever_left[c]) => MarkersDue(c) = remaining[c])
  /\ \A c \in Callers : (cpc[c] = "collecting") ~> (cpc[c] = "idle")

\* both callers' requests of two records have returned with two results each
\* on a pool of two workers of which one was still in its setup: the other
\* worker consumed both shards of both requests
C19_Witness ==
  /\ num_workers = 2
  /\ wpc[1] = "ready" /\ wpc[2] = "init"
  /\ \A c \in Callers :
       /\ cop[c] = "imap" /\ outcome[c] = "returned"
       /\ Len(keywords[c]) = 2 /\ Len(received[c]) = 2
       /\ req_no[c] = 1

\* ------------------------------------------------------------------ C21
\* worker w died on a shard of the current / last request of caller c, after
\* taking it from the task queue and before any completion marker for it
DiedOnShardOf(w, c) ==
  /\ wpc[w] = "failed"
  /\ wmsg[w] # <<>>
  /\ wmsg[w].id = c
  /\ wmsg[w].data # <<>>
  /\ wmsg[w].data[1].req = req_no[c]

\* C21: a request one of whose shards a worker consumed and died on, before
\* pushing its completion marker, neither returns nor raises: the collector
\* goes on waiting for the marker that will not come.
C21_SilenceKeepsWaiting ==
  \A c \in Callers :
    (\E w \in Workers : DiedOnShardOf(w, c)) => ~Ended(c)

\* ------------------------------------------------------------------ C22
\* C22: a worker that has consumed a shutdown signal has exited and holds no
\* task, and from then on none of its steps happens: its position, its task,
\* its record index and its count of signals never change again, so it takes
\* nothing from the task queue, runs no record and pushes nothing.
C22_SignalIsTerminal ==
  /\ [](\A w \in Workers :
          signals_got[w] > 0 => (wpc[w] = "exited" /\ wmsg[w] = <<>>))
  /\ [][\A w \in Workers :
          wpc[w] = "exited"
            => /\ wpc'[w] = "exited"
               /\ wmsg'[w] = wmsg[w]
               /\ widx'[w] = widx[w]
               /\ signals_got'[w] = signals_got[w]]_vars

\* the one worker has exited on its shutdown signal while the manager still
\* runs and a task, put after the signal, waits on the task queue
C22_Witness ==
  /\ num_workers = 1
  /\ wpc[1] = "exited" /\ signals_got[1] = 1
  /\ manager_up
  /\ task_queue # <<>>
  /\ Head(task_queue) # sentinel

\* ------------------------------------------------------------------ C23
\* C23: in FSDP mode a worker that has exited on the shutdown signal has left
\* the process group: dist.destroy_process_group() ran before the process ended.
C23_GroupTornDown ==
  \A w \in Workers :
    (fsdp_port # "None" /\ wpc[w] = "exited" /\ signals_got[w] > 0) => ~in_group[w]

\* ------------------------------------------------------------------ C24
\* the workers whose process runs
LiveWorkers == {w \in Workers : wpc[w] \notin Terminated}

\* C24: a worker that takes a task whose func does not load dies on it; a
\* worker that has died of an exception outside the per-record handling (in
\* its setup or on a task it took) stays dead with its state frozen, so it
\* takes no further task; and no step adds a live worker: num_workers is fixed
\* and the set of live workers only shrinks.
C24_FatalIsPermanent ==
  /\ [][(task_queue # <<>> /\ task_queue' = Tail(task_queue)
           /\ Head(task_queue) # sentinel /\ Head(task_queue).func_dill = "corrupt")
          => \E w \in Workers : wpc[w] = "ready" /\ wpc'[w] = "failed"]_vars
  /\ [][\A w \in Workers :
          wpc[w] = "failed"
            => /\ wpc'[w] = "failed"
               /\ wmsg'[w] = wmsg[w]
               /\ widx'[w] = widx[w]]_vars
  /\ [][num_workers' = num_workers /\ LiveWorkers' \subseteq LiveWorkers]_vars

\* of two workers one has died in its setup and the other on a task whose func
\* did not load; a task waits on the task queue and nobody takes it
C24_Witness ==
  /\ num_workers = 2
  /\ \E w \in Workers : wpc[w] = "failed" /\ wmsg[w] = <<>>
  /\ \E w \in Workers : wpc[w] = "failed" /\ wmsg[w] # <<>>
  /\ task_queue # <<>>

\* ------------------------------------------------------------------ C25
\* C25: on a pool some of whose workers have died idle while another is alive,
\* an imap / map dispatched afterwards still puts num_workers tasks on the task
\* queue; the request ends (its collector leaves the loop); and when it has
\* returned to a caller who took all its items, it has brought back the result
\* of every record, no task of the caller being left on the task queue.
C25_SurvivorsServe ==
  /\ [][\A c \in Callers :
          (cpc[c] = "idle" /\ cpc'[c] = "collecting" /\ cop'[c] = "imap")
            => Len(task_queue') = Len(task_queue) + num_workers]_vars
  /\ [](\A c \in Callers :
          (dead_at_start[c] /\ outcome[c] = "returned" /\ ~ever_left[c])
            => /\ BagOfSeq(received[c]) = BagOfSeq(ExpectedOf(c))
               /\ \A i \in DOMAIN task_queue : task_queue[i].id # c)
  /\ \A c \in Callers :
       (cpc[c] = "collecting" /\ dead_at_start[c]) ~> (cpc[c] = "idle")

\* worker 1 had died idle when caller A dispatched its first request, an imap
\* of two records sharded into two tasks; the request has returned with two
\* results, worker 2 having consumed both shards
C25_Witness ==
  /\ num_workers = 2
  /\ wpc[1] = "failed" /\ wmsg[1] = <<>>
  /\ wpc[2] = "ready"
  /\ dead_at_start["A"]
  /\ req_no["A"] = 1
  /\ cop["A"] = "imap" /\ outcome["A"] = "returned"
  /\ Len(keywords["A"]) = 2 /\ Len(received["A"]) = 2

\* ------------------------------------------------------------------ C26
\* task msg carries records of the current / last request of caller c
TaskOfCurrent(msg, c) ==
  /\ msg # <<>> /\ msg # sentinel
  /\ msg.id = get_queue_id(c)
  /\ msg.data # <<>>
  /\ msg.data[1].req = req_no[c]

\* C26: every payload yielded to a caller by its current / last request was
\* computed from a record of that very request, and a request that has returned
\* counted the markers of its own shards: none of its shards is still on the
\* task queue or in a worker's hands.
C26_RequestsIsolated ==
  \A c \in Callers :
    /\ \A i \in DOMAIN received[c] : PayloadSource(received[c][i])[2] = req_no[c]
    /\ outcome[c] = "returned"
         => /\ \A i \in DOMAIN task_queue : ~TaskOfCurrent(task_queue[i], c)
            /\ \A w \in Workers : ~TaskOfCurrent(wmsg[w], c)

\* ------------------------------------------------------------------ C27
\* C27: the id of every task on the task queue or in a worker's hands has a
\* queue in the registry; no step takes an id out of the registry, and a
\* request of a thread whose id has a queue leaves that queue as it is, with
\* what it holds; so a worker that takes a task dies on it only when the
\* task's func does not load, never on the lookup of the result queue.
C27_RegistryKeepsChannels ==
  /\ [](/\ \A i \in DOMAIN task_queue :
             task_queue[i] # sentinel => task_queue[i].id \in DOMAIN result_queues
        /\ \A w \in Workers : wmsg[w] # <<>> => wmsg[w].id \in DOMAIN result_queues)
  /\ [][/\ DOMAIN result_queues \subseteq DOMAIN result_queues'
        /\ \A c \in Callers :
             (req_no'[c] # req_no[c] /\ get_queue_id(c) \in DOMAIN result_queues)
               => result_queues'[get_queue_id(c)] = result_queues[get_queue_id(c)]]_vars
  /\ [][\A w \in Workers :
          (wpc[w] = "ready" /\ wpc'[w] = "failed")
            => /\ wmsg'[w].func_dill = "corrupt"
               /\ wmsg'[w].id \in DOMAIN result_queues]_vars

\* a worker has looked up the result queue of caller A for a task of A's
\* second request, and found the queue registered by A's first request,
\* which still holds what that request left in it
C27_Witness ==
  /\ req_no["A"] = 2
  /\ ~clean_start["A"]
  /\ result_queues["A"] # <<>>
  /\ \E w \in Workers :
       /\ wpc[w] \notin Terminated \cup {"init", "ready"}
       /\ TaskOfCurrent(wmsg[w], "A")

\* ------------------------------------------------------------------ C28
\* C28: when the collector of a request none of whose records raises, started
\* on an empty result queue, leaves its loop with its counter at zero, the
\* caller's result queue is empty and no running worker holds a task of the
\* request.
C28_NothingAfterCollection ==
  [][\A c \in Callers :
       (/\ cpc[c] = "collecting" /\ cpc'[c] = "idle"
        /\ remaining'[c] = 0
        /\ clean_start[c]
        /\ BadOf(c) = {})
         => /\ result_queues'[get_queue_id(c)] = <<>>
            /\ \A w \in Workers :
                 wpc'[w] \notin Terminated => ~TaskOfCurrent(wmsg'[w], c)]_vars

====
